---- MODULE Spec2Model ----
(***************************************************************************)
(* A model of src/benchmark.js: the ChatStorageBenchmark runner (run,      *)
(* initialize, the five benchmark phases, getStorageStats, generateReport, *)
(* analyzeResults, cleanup) and the MockIndexedDB in-memory store.         *)
(*                                                                         *)
(* The three storage adapters (./storage/way1-single-store, ...) are       *)
(* required by benchmark.js but are not part of src/; what the runner sees *)
(* of them (the {success, duration} result of the timing wrapper, the      *)
(* error of a failed initialize) is modelled from spec.md sections 4.1,    *)
(* 4.2 and 7.                                                              *)
(***************************************************************************)
EXTENDS Integers, Sequences, FiniteSets, TLC

(***************************************************************************)
(* Bounds of the model.                                                    *)
(***************************************************************************)
\* runFullBenchmark(numChats, messagesPerChat): numChats ranges over 0..MaxChats
MaxChats == 2
\* messagesPerChat ranges over 0..MaxMsgs
MaxMsgs == 2
\* benchmarkConcurrentReads(testData, concurrentUsers = 50): the model issues
\* ConcurrentUsers reads per variant
ConcurrentUsers == 2
\* at most MaxFaults store operations of one run deviate from the nominal
\* result {success: true, duration: 1}: they fail, or they take longer
MaxFaults == 1

(***************************************************************************)
(* Program constants.                                                      *)
(***************************************************************************)
\* benchmark.js:225  Math.min(10, messages.length)
EditLimit == 10
\* benchmark.js:256  Math.max(0, messages.length - 5)
DeleteLimit == 5

\* benchmark.js:162  for (const way of ['way1', 'way2', 'way3'])
Ways == <<"way1", "way2", "way3">>

\* benchmark.js:327  const operations = [...]
Operations ==
    <<"addMessage", "readMessages", "editMessage", "deleteMessage", "concurrentReads">>

Min2(a, b) == IF a < b THEN a ELSE b
Max2(a, b) == IF a > b THEN a ELSE b

(***************************************************************************)
(* JavaScript numbers.  Durations are small integers; an average is the    *)
(* exact quotient total/count, kept as a reduced fraction.  A zero         *)
(* denominator encodes the IEEE specials: 0/0 is NaN, 1/0 is Infinity,     *)
(* -1/0 is -Infinity.                                                      *)
(***************************************************************************)
NaN == [num |-> 0, den |-> 0]
Infinity == [num |-> 1, den |-> 0]
NegInfinity == [num |-> -1, den |-> 0]
Num(n) == [num |-> n, den |-> 1]

IsNaN(x) == x.den = 0 /\ x.num = 0
IsFinite(x) == x.den # 0

RECURSIVE Gcd(_, _)
Gcd(a, b) == IF b = 0 THEN a ELSE Gcd(b, a % b)

\* t / c for integers t >= 0, c >= 0 (the JS division of line 177)
Div(t, c) ==
    IF c = 0
    THEN (IF t = 0 THEN NaN ELSE Infinity)
    ELSE LET g == Gcd(t, c) IN [num |-> t \div g, den |-> c \div g]

\* x + y (score += average, line 389)
Plus(x, y) ==
    IF IsFinite(x) /\ IsFinite(y)
    THEN Div(x.num * y.den + y.num * x.den, x.den * y.den)
    ELSE IF IsNaN(x) \/ IsNaN(y) THEN NaN
    ELSE IF IsFinite(x) THEN y
    ELSE IF IsFinite(y) THEN x
    ELSE IF x = y THEN x ELSE NaN

\* the rank of an infinite or finite number on the extended real line
Side(x) == IF IsFinite(x) THEN 0 ELSE x.num

\* x < y as IEEE 754 decides it: false as soon as one side is NaN
Lt(x, y) ==
    /\ ~IsNaN(x)
    /\ ~IsNaN(y)
    /\ IF IsFinite(x) /\ IsFinite(y)
       THEN x.num * y.den < y.num * x.den
       ELSE Side(x) < Side(y)

\* x == y as IEEE 754 decides it: NaN equals nothing, itself included
NumEq(x, y) == ~IsNaN(x) /\ ~IsNaN(y) /\ x = y

\* x <= y as IEEE 754 decides it
Le(x, y) == Lt(x, y) \/ NumEq(x, y)

RECURSIVE Sum(_)
\* durations.reduce((a, b) => a + b, 0)
Sum(ds) == IF ds = <<>> THEN 0 ELSE Head(ds) + Sum(Tail(ds))

RECURSIVE MinOfSeq(_)
MinOfSeq(ds) ==
    IF Len(ds) = 1 THEN Head(ds) ELSE Min2(Head(ds), MinOfSeq(Tail(ds)))

RECURSIVE MaxOfSeq(_)
MaxOfSeq(ds) ==
    IF Len(ds) = 1 THEN Head(ds) ELSE Max2(Head(ds), MaxOfSeq(Tail(ds)))

\* Math.min(...durations): Infinity for no argument
MathMin(ds) == IF ds = <<>> THEN Infinity ELSE Num(MinOfSeq(ds))

\* Math.max(...durations): -Infinity for no argument
MathMax(ds) == IF ds = <<>> THEN NegInfinity ELSE Num(MaxOfSeq(ds))

\* the statistics bundle of lines 176-182 (and 203-209, 234-240, 265-271, 299-305)
Stats(ds) ==
    [average |-> Div(Sum(ds), Len(ds)),
     min |-> MathMin(ds),
     max |-> MathMax(ds),
     total |-> Sum(ds),
     count |-> Len(ds)]

RecordAll(ds, result) == Append(ds, result.duration)

RecordFront(ds, result) ==
    IF result.success THEN <<result.duration>> \o ds ELSE ds

\* if (result.success) { durations.push(result.duration); }   lines 170-172
Record(ds, result) ==
    IF result.success THEN Append(ds, result.duration) ELSE ds

(***************************************************************************)
(* Array.prototype.sort as Node's V8 runs it on an array shorter than 64   *)
(* elements (one TimSort run: count the leading run, reverse it when it    *)
(* descends, binary-insert the rest).  The comparator of lines 346, 379    *)
(* and 395 is (a, b) => a.avg - b.avg; V8 reads a NaN result as 0.  With a *)
(* consistent comparator this is the stable sort ECMAScript requires.      *)
(***************************************************************************)
\* comparefn(a, b) < 0
CompareNeg(a, b) == Lt(a.avg, b.avg)

RECURSIVE RunLength(_, _, _)
\* CountAndMakeRun: the length of the run starting at a[1]; idx is the next
\* element to look at
RunLength(a, descending, idx) ==
    IF idx > Len(a) THEN idx - 1
    ELSE IF descending
         THEN (IF ~CompareNeg(a[idx], a[idx - 1])
               THEN idx - 1 ELSE RunLength(a, descending, idx + 1))
         ELSE (IF CompareNeg(a[idx], a[idx - 1])
               THEN idx - 1 ELSE RunLength(a, descending, idx + 1))

\* ReverseRange(a, 1, n)
ReverseRun(a, n) ==
    [p \in 1..Len(a) |-> IF p <= n THEN a[n + 1 - p] ELSE a[p]]

RECURSIVE InsertionPoint(_, _, _, _)
\* the binary search of BinaryInsertionSort, over a[left .. right-1]
InsertionPoint(a, pivot, left, right) ==
    IF left >= right THEN left
    ELSE LET mid == left + ((right - left) \div 2) IN
         IF CompareNeg(pivot, a[mid])
         THEN InsertionPoint(a, pivot, left, mid)
         ELSE InsertionPoint(a, pivot, mid + 1, right)

\* move a[start] down to position left
MoveTo(a, start, left) ==
    [p \in 1..Len(a) |->
        IF p < left \/ p > start THEN a[p]
        ELSE IF p = left THEN a[start] ELSE a[p - 1]]

RECURSIVE BinaryInsertionSort(_, _)
BinaryInsertionSort(a, start) ==
    IF start > Len(a) THEN a
    ELSE BinaryInsertionSort(
             MoveTo(a, start, InsertionPoint(a, a[start], 1, start)), start + 1)

\* results.sort((a, b) => a.avg - b.avg)   line 346
ArraySort(a) ==
    IF Len(a) < 2 THEN a
    ELSE LET descending == CompareNeg(a[2], a[1])
             run == RunLength(a, descending, 3)
             b == IF descending THEN ReverseRun(a, run) ELSE a
         IN  BinaryInsertionSort(b, run + 1)

(***************************************************************************)
(* The report: generateReport (lines 322-363) and analyzeResults           *)
(* (lines 365-403), as functions of this.results.                          *)
(***************************************************************************)
RECURSIVE EntriesFrom(_, _, _)
\* lines 333-343 and 373-378: one entry per variant that has a bundle for op
EntriesFrom(res, op, w) ==
    IF w > Len(Ways) THEN <<>>
    ELSE IF op \in DOMAIN res[Ways[w]]
         THEN <<[way |-> Ways[w], avg |-> res[Ways[w]][op].average]>>
                  \o EntriesFrom(res, op, w + 1)
         ELSE EntriesFrom(res, op, w + 1)

\* lines 333-346: the ranked entries of one operation
Ranking(res, op) == ArraySort(EntriesFrom(res, op, 1))

RECURSIVE ScoreFrom(_, _, _)
\* lines 386-391: the sum of the averages of the operations way has a bundle for
ScoreFrom(res, wayName, i) ==
    IF i > Len(Operations) THEN Num(0)
    ELSE IF Operations[i] \in DOMAIN res[wayName]
         THEN Plus(res[wayName][Operations[i]].average, ScoreFrom(res, wayName, i + 1))
         ELSE ScoreFrom(res, wayName, i + 1)

\* score = ((((0 + a1) + a2) + a3) + a4) + a5; the sum is exact in the model,
\* so the order of the additions does not matter
OverallScore(res, wayName) == ScoreFrom(res, wayName, 1)

\* line 395: Object.entries(overallScores).sort((a, b) => a[1] - b[1])
OverallRanking(res) ==
    ArraySort([w \in 1..Len(Ways) |->
                  [way |-> Ways[w], avg |-> OverallScore(res, Ways[w])]])

\* line 380: results[0].way throws a TypeError when no variant has a bundle
AnalyzeThrows(res) ==
    \E i \in 1..Len(Operations) : Ranking(res, Operations[i]) = <<>>

\* what generateReport prints: the ranked variants of each operation, the
\* per-operation winners and the overall winner
ReportOf(res) ==
    [rankings |-> [i \in 1..Len(Operations) |-> Ranking(res, Operations[i])],
     winners |-> [i \in 1..Len(Operations) |-> Ranking(res, Operations[i])[1].way],
     overall |-> OverallRanking(res),
     overallWinner |-> OverallRanking(res)[1].way]

(***************************************************************************)
(* MockIndexedDB (lines 5-107): state.                                     *)
(***************************************************************************)
VARIABLES
    databases,   \* this.databases: name -> [version, objectStores: name -> store]
    stores,      \* the store objects created so far (line 34): a store is
                 \* named by its position here, as a closure holds it by reference
    timers,      \* the callbacks handed to setTimeout(..., 0), in firing order
    requests,    \* the request objects returned so far, with what happened to each
    handles,     \* the connections (request.result of an open) created so far
    txs,         \* the transaction objects returned so far
    thrown       \* history: the errors objectStore() has thrown, in order

dbVars == <<databases, stores, timers, requests, handles, txs, thrown>>

(***************************************************************************)
(* State.                                                                  *)
(***************************************************************************)
VARIABLES
    numChats,          \* runFullBenchmark's numChats
    messagesPerChat,   \* runFullBenchmark's messagesPerChat
    phase,             \* the phase run() is in
    pc,                \* "call": about to issue; "await": suspended on one
                       \* operation; "gather": suspended on Promise.all
    way,               \* index into Ways of the variant being processed
    idx,               \* position in the variant's operation sequence
    pending,           \* the store operations issued and not yet settled
    durations,         \* the durations array of the variant being processed
    results,           \* this.results
    caught,            \* the error run() caught, NoError when none
    report,            \* what generateReport printed, NoReport before
    closeLog,          \* the variants whose close() has returned, in order
    slow,              \* operations so far that took longer than nominal
    failures,          \* operations so far that returned success = false
    issued,            \* history: every store operation issued, in order
    rejected,          \* history: the error an adapter's initialize() rejected
                       \* with, NoError when none did
    completed,         \* history: the concurrent reads of the current variant
                       \* that have settled, in completion order
    tally              \* history: per variant and operation, how many calls
                       \* returned success and the sum of their durations

runnerVars ==
    <<numChats, messagesPerChat, phase, pc, way, idx, pending, durations,
      results, caught, report, closeLog, slow, failures, issued, rejected,
      completed, tally>>

\* run() and runFullBenchmark: the order of the phases (lines 437-442, 410-417)
Phases ==
    <<"initialize", "add", "read", "edit", "delete", "concurrentReads",
      "stats", "report", "cleanup", "done">>

PhaseIndex(p) == CHOOSE i \in 1..Len(Phases) : Phases[i] = p

NextPhaseSkipping(p) ==
    IF p = "read" THEN "delete" ELSE Phases[PhaseIndex(p) + 1]

\* the phase run() enters when phase p has returned normally
NextPhase(p) == Phases[PhaseIndex(p) + 1]

NoError == [name |-> "none"]
NoReport == [rankings |-> <<>>]
EmptyTally == [count |-> 0, total |-> 0]

(***************************************************************************)
(* The adapters as the runner sees them.                                   *)
(***************************************************************************)
\* spec.md 4.2: every store operation returns {success, duration}
Nominal == [success |-> TRUE, duration |-> 1]
Slow == [success |-> TRUE, duration |-> 2]
Failed == [success |-> FALSE, duration |-> 2]

\* the results an operation may return now, within the fault bound
OpResults ==
    {Nominal} \cup (IF slow + failures < MaxFaults THEN {Slow, Failed} ELSE {})

\* spec.md 4.1 and 7: initialize() fails with StorageUnavailable, and the
\* failure identifies the variant
StorageUnavailable(w) == [name |-> "StorageUnavailable", variant |-> Ways[w]]

InitializeOutcomes(w) == {NoError, StorageUnavailable(w)}

(***************************************************************************)
(* generateTestData (lines 136-157): chats 1..numChats, each with messages *)
(* 1..messagesPerChat; a message's uuid is modelled by (chat, index).      *)
(* Each sequence below lists the (chat, message) pairs one benchmark       *)
(* function passes to the adapter, in the order of its loops.              *)
(***************************************************************************)
\* lines 167-174
AddOps ==
    [i \in 1..(numChats * messagesPerChat) |->
        [chat |-> ((i - 1) \div messagesPerChat) + 1,
         msg |-> ((i - 1) % messagesPerChat) + 1]]

\* lines 196-201
ReadOps == [i \in 1..numChats |-> [chat |-> i, msg |-> 0]]

\* line 225: i = 0 .. Math.min(10, messages.length) - 1
EditCount == Min2(EditLimit, messagesPerChat)

\* lines 223-232
EditOps ==
    [i \in 1..(numChats * EditCount) |->
        [chat |-> ((i - 1) \div EditCount) + 1,
         msg |-> ((i - 1) % EditCount) + 1]]

\* a loop that runs over every message of the chat
DeleteCountAll == messagesPerChat

\* line 256: i = messages.length - 1 down to Math.max(0, messages.length - 5)
DeleteCount == messagesPerChat - Max2(0, messagesPerChat - DeleteLimit)

\* lines 254-263
DeleteOps ==
    [i \in 1..(numChats * DeleteCount) |->
        [chat |-> ((i - 1) \div DeleteCount) + 1,
         msg |-> messagesPerChat - ((i - 1) % DeleteCount)]]

\* line 287: testData[i % testData.length].chatId, for the i-th read (i from 1)
ConcurrentChat(i) == ((i - 1) % numChats) + 1

\* the state of the runner after new ChatStorageBenchmark() (lines 117-125),
\* about to run the function of phase p
RunnerAt(p) ==
    /\ phase = p
    /\ pc = "call"
    /\ way = 1
    /\ idx = 1
    /\ pending = {}
    /\ durations = <<>>
    /\ results = [w \in {Ways[i] : i \in 1..Len(Ways)} |-> <<>>]
    /\ caught = NoError
    /\ report = NoReport
    /\ closeLog = <<>>
    /\ slow = 0
    /\ failures = 0
    /\ issued = <<>>
    /\ rejected = NoError
    /\ completed = <<>>
    /\ tally = [w \in {Ways[i] : i \in 1..Len(Ways)} |->
                   [op \in {Operations[i] : i \in 1..Len(Operations)} |-> EmptyTally]]

\* the state of the runner before run() has taken a step
RunnerFresh == RunnerAt("initialize")

\* new MockIndexedDB() (lines 6-8): no database, nothing scheduled
DbFresh ==
    /\ databases = <<>>
    /\ stores = <<>>
    /\ timers = <<>>
    /\ requests = <<>>
    /\ handles = <<>>
    /\ txs = <<>>
    /\ thrown = <<>>

\* a run of the benchmark on a dataset of numChats chats
Init ==
    /\ numChats \in 0..MaxChats
    /\ messagesPerChat \in 0..MaxMsgs
    /\ RunnerFresh
    /\ DbFresh

(***************************************************************************)
(* Steps shared by the phases.                                             *)
(***************************************************************************)
Op(method, chat, msg) ==
    [phase |-> phase, way |-> Ways[way], op |-> method, chat |-> chat, msg |-> msg]

\* const result = await store.<op>(...): the call is issued and the runner
\* suspends
Issue(method, chat, msg) ==
    /\ pending' = pending \cup {[op |-> Op(method, chat, msg), k |-> idx]}
    /\ issued' = Append(issued, Op(method, chat, msg))

\* durations for the tally of successful calls
Tallied(t, result) ==
    IF result.success
    THEN [count |-> t.count + 1, total |-> t.total + result.duration]
    ELSE t

\* the bookkeeping of one settled operation
Settled(opName, result) ==
    /\ slow' = IF result = Slow THEN slow + 1 ELSE slow
    /\ failures' = IF result = Failed THEN failures + 1 ELSE failures
    /\ tally' = [tally EXCEPT ![Ways[way]][opName] = Tallied(@, result)]

\* the runner moves to phase p, at its first variant
Enter(p) ==
    /\ phase' = p
    /\ pc' = "call"
    /\ way' = 1
    /\ idx' = 1
    /\ durations' = <<>>
    /\ completed' = <<>>

\* an exception that ends the run without the finally block
ThrowAbandoning(error) ==
    /\ caught' = error
    /\ Enter("done")

\* an exception leaves the try block: catch (line 439), then finally (line 441)
Throw(error) ==
    /\ caught' = error
    /\ Enter("cleanup")

\* a variant whose bundle is stored only when a duration was recorded
FinishVariantSkippingEmpty(opName) ==
    /\ results' = IF durations = <<>> THEN results
                  ELSE [results EXCEPT ![Ways[way]] = (opName :> Stats(durations)) @@ @]
    /\ IF way < Len(Ways)
       THEN /\ way' = way + 1
            /\ idx' = 1
            /\ durations' = <<>>
            /\ completed' = <<>>
            /\ pc' = "call"
            /\ UNCHANGED phase
       ELSE Enter(NextPhase(phase))
    /\ UNCHANGED <<dbVars, numChats, messagesPerChat, rejected, pending, caught, report, closeLog,
                   slow, failures, issued, tally>>

\* this.results[way].<op> = {...} (lines 176-182), then the next variant, or
\* the next phase after the last one
FinishVariant(opName) ==
    /\ results' = [results EXCEPT ![Ways[way]] = (opName :> Stats(durations)) @@ @]
    /\ IF way < Len(Ways)
       THEN /\ way' = way + 1
            /\ idx' = 1
            /\ durations' = <<>>
            /\ completed' = <<>>
            /\ pc' = "call"
            /\ UNCHANGED phase
       ELSE Enter(NextPhase(phase))
    /\ UNCHANGED <<dbVars, numChats, messagesPerChat, rejected, pending, caught, report, closeLog,
                   slow, failures, issued, tally>>

SequentialCallNoAwait(method, ops) ==
    /\ pc = "call"
    /\ idx <= Len(ops)
    /\ Issue(method, ops[idx].chat, ops[idx].msg)
    /\ idx' = idx + 1
    /\ UNCHANGED <<dbVars, numChats, messagesPerChat, rejected, phase, pc, way, durations,
                   results, caught, report, closeLog, slow, failures, completed,
                   tally>>

\* one awaited call of a sequential phase is issued
SequentialCall(method, ops) ==
    /\ pc = "call"
    /\ idx <= Len(ops)
    /\ Issue(method, ops[idx].chat, ops[idx].msg)
    /\ pc' = "await"
    /\ UNCHANGED <<dbVars, numChats, messagesPerChat, rejected, phase, way, idx, durations, results,
                   caught, report, closeLog, slow, failures, completed, tally>>

\* the awaited call settles: its duration is recorded when it succeeded, and
\* the loop goes on
SequentialReturn(opName) ==
    /\ pc = "await"
    /\ \E result \in OpResults :
          /\ durations' = Record(durations, result)
          /\ Settled(opName, result)
    /\ pending' = {}
    /\ idx' = idx + 1
    /\ pc' = "call"
    /\ UNCHANGED <<dbVars, numChats, messagesPerChat, rejected, phase, way, results, caught, report,
                   closeLog, issued, completed>>

\* the loops of one variant are over: its statistics are computed
SequentialStats(opName, ops) ==
    /\ pc = "call"
    /\ idx > Len(ops)
    /\ FinishVariant(opName)

(***************************************************************************)
(* initialize (lines 128-134), called by run() (line 437).                 *)
(***************************************************************************)
InitializeCall ==
    /\ phase = "initialize"
    /\ pc = "call"
    /\ Issue("initialize", 0, 0)
    /\ pc' = "await"
    /\ UNCHANGED <<dbVars, numChats, messagesPerChat, rejected, phase, way, idx, durations, results,
                   caught, report, closeLog, slow, failures, completed, tally>>

\* the awaited initialize() resolved: the next variant, or runFullBenchmark
InitializeResolved ==
    /\ IF way < Len(Ways)
       THEN /\ way' = way + 1
            /\ pc' = "call"
            /\ UNCHANGED <<phase, idx, durations, completed>>
       ELSE Enter(NextPhase(phase))
    /\ UNCHANGED caught

InitializeRejectedSwallowed(error) == InitializeResolved

\* the awaited initialize() rejected: nothing in initialize() or before the
\* catch of run() handles it (lines 130-132, 436-440)
InitializeRejected(error) == Throw(error)

InitializeReturn ==
    /\ phase = "initialize"
    /\ pc = "await"
    /\ \E outcome \in InitializeOutcomes(way) :
          /\ rejected' = outcome
          /\ IF outcome = NoError THEN InitializeResolved ELSE InitializeRejected(outcome)
    /\ pending' = {}
    /\ UNCHANGED <<dbVars, numChats, messagesPerChat, results, report, closeLog, slow,
                   failures, issued, tally>>

(***************************************************************************)
(* benchmarkAddMessages (lines 159-186).                                   *)
(***************************************************************************)
AddCall == phase = "add" /\ SequentialCall("addMessage", AddOps)
AddReturn == phase = "add" /\ SequentialReturn("addMessage")
AddStats == phase = "add" /\ SequentialStats("addMessage", AddOps)

(***************************************************************************)
(* benchmarkReadMessages (lines 188-213).                                  *)
(***************************************************************************)
ReadCall == phase = "read" /\ SequentialCall("getChatMessages", ReadOps)
ReadReturn == phase = "read" /\ SequentialReturn("readMessages")
ReadStats == phase = "read" /\ SequentialStats("readMessages", ReadOps)

(***************************************************************************)
(* benchmarkEditMessages (lines 215-244).                                  *)
(***************************************************************************)
EditCall == phase = "edit" /\ SequentialCall("editMessage", EditOps)
EditReturn == phase = "edit" /\ SequentialReturn("editMessage")
EditStats == phase = "edit" /\ SequentialStats("editMessage", EditOps)

(***************************************************************************)
(* benchmarkDeleteMessages (lines 246-275).                                *)
(***************************************************************************)
DeleteCall == phase = "delete" /\ SequentialCall("deleteMessage", DeleteOps)
DeleteReturn == phase = "delete" /\ SequentialReturn("deleteMessage")
DeleteStats == phase = "delete" /\ SequentialStats("deleteMessage", DeleteOps)

(***************************************************************************)
(* benchmarkConcurrentReads (lines 277-309).                               *)
(***************************************************************************)
TypeError == [name |-> "TypeError"]

\* lines 286-295: one iteration of the issuing loop.  The loop is
\* synchronous: no read settles before it is over.  With an empty testData,
\* testData[i % 0] is undefined and reading its chatId throws.
ConcurrentIssue ==
    /\ phase = "concurrentReads"
    /\ pc = "call"
    /\ idx <= ConcurrentUsers
    /\ IF numChats = 0
       THEN /\ Throw(TypeError)
            /\ UNCHANGED <<pending, issued>>
       ELSE /\ Issue("getChatMessages", ConcurrentChat(idx), 0)
            /\ idx' = idx + 1
            /\ UNCHANGED <<phase, pc, way, durations, caught, completed>>
    /\ UNCHANGED <<dbVars, numChats, messagesPerChat, rejected, results, report, closeLog, slow,
                   failures, tally>>

\* line 297: await Promise.all(promises)
ConcurrentAwait ==
    /\ phase = "concurrentReads"
    /\ pc = "call"
    /\ idx > ConcurrentUsers
    /\ pc' = "gather"
    /\ UNCHANGED <<dbVars, numChats, messagesPerChat, rejected, phase, way, idx, pending, durations,
                   results, caught, report, closeLog, slow, failures, issued,
                   completed, tally>>

\* lines 289-293: one read settles and its .then callback runs; the reads
\* settle in any order
ConcurrentSettle ==
    /\ phase = "concurrentReads"
    /\ pc = "gather"
    /\ \E p \in pending :
          \E result \in OpResults :
             /\ durations' = Record(durations, result)
             /\ Settled("concurrentReads", result)
             /\ completed' = Append(completed, [k |-> p.k, result |-> result])
             /\ pending' = pending \ {p}
    /\ UNCHANGED <<dbVars, numChats, messagesPerChat, rejected, phase, pc, way, idx, results, caught,
                   report, closeLog, issued>>

PromiseRace == completed # <<>>

\* Promise.all(promises) resolves when every promise has (line 297)
PromiseAll == pending = {}

\* lines 299-305
ConcurrentStats ==
    /\ phase = "concurrentReads"
    /\ pc = "gather"
    /\ PromiseAll
    /\ FinishVariant("concurrentReads")

(***************************************************************************)
(* getStorageStats (lines 311-320).                                        *)
(***************************************************************************)
\* spec.md 4.1: getStats() returns counts for reporting
AdapterStats == [kind |-> "stats"]

StatsCall ==
    /\ phase = "stats"
    /\ pc = "call"
    /\ Issue("getStats", 0, 0)
    /\ pc' = "await"
    /\ UNCHANGED <<dbVars, numChats, messagesPerChat, rejected, phase, way, idx, durations, results,
                   caught, report, closeLog, slow, failures, completed, tally>>

StatsReturn ==
    /\ phase = "stats"
    /\ pc = "await"
    /\ pending' = {}
    /\ results' = [results EXCEPT ![Ways[way]] = ("stats" :> AdapterStats) @@ @]
    /\ IF way < Len(Ways)
       THEN /\ way' = way + 1
            /\ pc' = "call"
            /\ UNCHANGED <<phase, idx, durations, completed>>
       ELSE Enter(NextPhase(phase))
    /\ UNCHANGED <<dbVars, numChats, messagesPerChat, rejected, caught, report, closeLog, slow,
                   failures, issued, tally>>

(***************************************************************************)
(* generateReport (line 417), then the return of runFullBenchmark and the  *)
(* finally of run().                                                       *)
(***************************************************************************)
GenerateReport ==
    /\ phase = "report"
    /\ IF AnalyzeThrows(results)
       THEN Throw(TypeError) /\ UNCHANGED report
       ELSE /\ report' = ReportOf(results)
            /\ Enter(NextPhase(phase))
            /\ UNCHANGED caught
    /\ UNCHANGED <<dbVars, numChats, messagesPerChat, rejected, pending, results, closeLog, slow,
                   failures, issued, tally>>

(***************************************************************************)
(* cleanup (lines 422-428), in the finally of run() (line 442).            *)
(***************************************************************************)
CloseCall ==
    /\ phase = "cleanup"
    /\ pc = "call"
    /\ Issue("close", 0, 0)
    /\ pc' = "await"
    /\ UNCHANGED <<dbVars, numChats, messagesPerChat, rejected, phase, way, idx, durations, results,
                   caught, report, closeLog, slow, failures, completed, tally>>

CloseReturn ==
    /\ phase = "cleanup"
    /\ pc = "await"
    /\ pending' = {}
    /\ closeLog' = Append(closeLog, Ways[way])
    /\ IF way < Len(Ways)
       THEN /\ way' = way + 1
            /\ pc' = "call"
            /\ UNCHANGED <<phase, idx, durations, completed>>
       ELSE Enter(NextPhase(phase))
    /\ UNCHANGED <<dbVars, numChats, messagesPerChat, rejected, results, caught, report, slow,
                   failures, issued, tally>>

Next ==
    \/ InitializeCall \/ InitializeReturn
    \/ AddCall \/ AddReturn \/ AddStats
    \/ ReadCall \/ ReadReturn \/ ReadStats
    \/ EditCall \/ EditReturn \/ EditStats
    \/ DeleteCall \/ DeleteReturn \/ DeleteStats
    \/ ConcurrentIssue \/ ConcurrentAwait \/ ConcurrentSettle \/ ConcurrentStats
    \/ StatsCall \/ StatsReturn
    \/ GenerateReport
    \/ CloseCall \/ CloseReturn

vars == <<runnerVars, dbVars>>

Spec == Init /\ [][Next]_vars

(***************************************************************************)
(* benchmarkDeleteMessages(testData) called on its own, as a user of the   *)
(* exported class may, on datasets with more messages per chat than the    *)
(* function deletes.                                                       *)
(***************************************************************************)
\* bound of messagesPerChat in these calls
MaxDeleteMsgs == 7

DeleteInit ==
    /\ numChats \in 1..MaxChats
    /\ messagesPerChat \in 0..MaxDeleteMsgs
    /\ RunnerAt("delete")
    /\ DbFresh

DeleteNext == DeleteCall \/ DeleteReturn \/ DeleteStats

DeleteSpec == DeleteInit /\ [][DeleteNext]_vars

(***************************************************************************)
(* MockIndexedDB (lines 5-107).  The callers of the mock are the adapters, *)
(* which are not part of src/: DbNext lets a caller make any call of the   *)
(* mock's interface, with arguments from small sets, and lets the timers   *)
(* fire.  Timers of equal delay fire in the order they were set.           *)
(***************************************************************************)
\* bounds of the calls made to the mock: the calls in all, and the arguments
\* in all that differ from those of the plain calls, which are
\* open("db1", 1) with the upgrade handler and onsuccess attached,
\* transaction(["s1"], "readwrite"), objectStore("s1"), key 1
MaxCalls == 6
MaxVariety == 1

DbNames == {"db1", "db2"}
StoreNames == {"s1", "s2"}
Versions == {1, 2}
Keys == {1, 2}
Modes == {"readonly", "readwrite"}

\* the values a caller puts: objects with the key at the store's keyPath "id";
\* every put carries a content not put before
Values == {[id |-> k, content |-> Len(requests) + 1] : k \in Keys}

\* what a JS Map lookup gives for a missing key
Undefined == [undefined |-> TRUE]

\* a request's result and error before its callback has run (line 56)
Null == [null |-> TRUE]

\* the key of a request that takes none
NoKey == 0

\* the upgrade handlers a caller attaches: none, or one that creates every
\* store of StoreNames the database does not contain yet
UpgradeHandlers == {"none", "createMissing"}

\* the number of arguments of a call that are not the plain ones
Odd(b) == IF b THEN 1 ELSE 0

OddOpen(dbName, version, upgrade, onsuccess) ==
    Odd(dbName # "db1") + Odd(version # 1) + Odd(upgrade # "createMissing")
      + Odd(~onsuccess)

OddRequest(name, key, onsuccess) ==
    Odd(name # "s1") + Odd(key \in Keys /\ key # 1) + Odd(~onsuccess)

RECURSIVE SumOdd(_)
SumOdd(log) == IF log = <<>> THEN 0 ELSE Head(log).odd + SumOdd(Tail(log))

\* a JS Map as the sequence of its [key, value] entries in insertion order
MapHas(m, key) == \E i \in 1..Len(m) : m[i].key = key

MapGet(m, key) ==
    IF MapHas(m, key)
    THEN m[CHOOSE i \in 1..Len(m) : m[i].key = key].value
    ELSE Undefined

\* a set that adds an entry even when the key is present
MapSetAppending(m, key, value) == Append(m, [key |-> key, value |-> value])

MapSet(m, key, value) ==
    IF MapHas(m, key)
    THEN [i \in 1..Len(m) |-> IF m[i].key = key THEN [key |-> key, value |-> value] ELSE m[i]]
    ELSE Append(m, [key |-> key, value |-> value])

\* a delete that drops the oldest entry when the key is absent
MapDeleteOldest(m, key) ==
    IF MapHas(m, key) \/ m = <<>> THEN SelectSeq(m, LAMBDA e : e.key # key) ELSE Tail(m)

MapDelete(m, key) == SelectSeq(m, LAMBDA e : e.key # key)

MapValues(m) == [i \in 1..Len(m) |-> m[i].value]

\* value[store.keyPath] (line 66)
KeyOf(value, keyPath) == IF keyPath = "id" THEN value.id ELSE Undefined

\* db.objectStores.has(name) (line 31)
Contains(dbName, name) == name \in DOMAIN databases[dbName].objectStores

\* createObjectStore (lines 33-46) on database dbName, given the databases
\* and the store objects so far: a new empty store replaces any store of
\* that name
CreateIn(dbs, sts, dbName, name, inUpgrade) ==
    [dbs |-> [dbs EXCEPT ![dbName].objectStores = (name :> (Len(sts) + 1)) @@ @],
     sts |-> Append(sts, [name |-> name, keyPath |-> "id", data |-> <<>>,
                          inUpgrade |-> inUpgrade,
                          odd |-> IF inUpgrade THEN 0 ELSE Odd(name # "s1")])]

RECURSIVE CreateMissing(_, _, _, _)
\* the "createMissing" upgrade handler: if (!contains(n)) createObjectStore(n)
CreateMissing(dbs, sts, dbName, names) ==
    IF names = {} THEN [dbs |-> dbs, sts |-> sts]
    ELSE LET n == CHOOSE x \in names : TRUE
             next == IF n \in DOMAIN dbs[dbName].objectStores
                     THEN [dbs |-> dbs, sts |-> sts]
                     ELSE CreateIn(dbs, sts, dbName, n, TRUE)
         IN  CreateMissing(next.dbs, next.sts, dbName, names \ {n})

\* the history of an open whose callback has not run, or of another request
NoHistory == [none |-> TRUE]

\* a request object (lines 11-17, 56, 64, 72, 80) with the history of what
\* happened to it
NewRequest(kind, tx, store, key, value, onsuccess, odd) ==
    [kind |-> kind, odd |-> odd, tx |-> tx, store |-> store, key |-> key, value |-> value,
     onsuccess |-> onsuccess,       \* the caller attaches onsuccess on return
     result |-> Null,
     settled |-> FALSE,             \* its timer has fired
     successCalls |-> 0,            \* times onsuccess was invoked
     errorCalls |-> 0,              \* times onerror was invoked
     error |-> "null",
     changed |-> FALSE,             \* its timer changed the store's data
     opened |-> NoHistory,          \* what the callback of open found and did
     afterClose |-> IF tx = 0 THEN FALSE ELSE handles[txs[tx].handle].closeCalled]

\* the calls made to the mock so far
Calls ==
    Len(requests) + Len(txs) + Len(thrown)
      + Cardinality({h \in 1..Len(handles) : handles[h].closeCalled})
      + Cardinality({s \in 1..Len(stores) : ~stores[s].inUpgrade})

\* the arguments so far that were not the plain ones
Variety == SumOdd(requests) + SumOdd(txs) + SumOdd(stores) + SumOdd(thrown)

\* open(dbName, version) (lines 10-17, 105): the request is returned and the
\* callback of line 19 is scheduled
DbOpen ==
    /\ Calls < MaxCalls
    /\ \E dbName \in DbNames, version \in Versions, upgrade \in UpgradeHandlers,
          onsuccess \in BOOLEAN :
          /\ Variety + OddOpen(dbName, version, upgrade, onsuccess) <= MaxVariety
          /\ requests' = Append(requests,
                            NewRequest("open", 0, 0, NoKey, Undefined, onsuccess,
                                       OddOpen(dbName, version, upgrade, onsuccess)))
          /\ timers' = Append(timers,
                          [kind |-> "open", request |-> Len(requests) + 1,
                           dbName |-> dbName, version |-> version,
                           onupgradeneeded |-> upgrade])
    /\ UNCHANGED <<databases, stores, handles, txs, thrown>>
    /\ UNCHANGED runnerVars

\* a callback of open that sets up the database whether or not it exists
FireOpenAfresh(t) ==
    LET created == (t.dbName :> [name |-> t.dbName, version |-> t.version,
                                 objectStores |-> <<>>]) @@ databases
        upgraded == IF t.onupgradeneeded = "createMissing"
                    THEN CreateMissing(created, stores, t.dbName, StoreNames)
                    ELSE [dbs |-> created, sts |-> stores]
    IN  /\ databases' = upgraded.dbs
        /\ stores' = upgraded.sts
        /\ handles' = Append(handles, [db |-> t.dbName, closeCalled |-> FALSE])
        /\ requests' = [requests EXCEPT ![t.request] =
                           [@ EXCEPT !.result = [handle |-> Len(handles) + 1],
                                     !.settled = TRUE,
                                     !.opened =
                                        [dbName |-> t.dbName,
                                         version |-> t.version,
                                         wasNew |-> t.dbName \notin DOMAIN databases,
                                         versionBefore |->
                                            IF t.dbName \in DOMAIN databases
                                            THEN databases[t.dbName].version ELSE 0,
                                         versionAfter |-> upgraded.dbs[t.dbName].version,
                                         onupgradeneeded |-> t.onupgradeneeded,
                                         upgradeCalls |->
                                            IF t.onupgradeneeded = "none" THEN 0 ELSE 1,
                                         databases |-> databases,
                                         stores |-> stores],
                                     !.successCalls = IF requests[t.request].onsuccess THEN 1 ELSE 0]]
        /\ UNCHANGED <<txs, thrown>>

\* the callback of open (lines 19-103)
FireOpen(t) ==
    LET created == IF t.dbName \in DOMAIN databases
                   THEN databases
                   ELSE (t.dbName :> [name |-> t.dbName, version |-> t.version,
                                      objectStores |-> <<>>]) @@ databases
        upgraded == IF t.onupgradeneeded = "createMissing"
                    THEN CreateMissing(created, stores, t.dbName, StoreNames)
                    ELSE [dbs |-> created, sts |-> stores]
    IN  /\ databases' = upgraded.dbs
        /\ stores' = upgraded.sts
        /\ handles' = Append(handles, [db |-> t.dbName, closeCalled |-> FALSE])
        /\ requests' = [requests EXCEPT ![t.request] =
                           [@ EXCEPT !.result = [handle |-> Len(handles) + 1],
                                     !.settled = TRUE,
                                     !.opened =
                                        [dbName |-> t.dbName,
                                         version |-> t.version,
                                         wasNew |-> t.dbName \notin DOMAIN databases,
                                         versionBefore |->
                                            IF t.dbName \in DOMAIN databases
                                            THEN databases[t.dbName].version ELSE 0,
                                         versionAfter |-> upgraded.dbs[t.dbName].version,
                                         onupgradeneeded |-> t.onupgradeneeded,
                                         upgradeCalls |->
                                            IF t.onupgradeneeded = "none" THEN 0 ELSE 1,
                                         databases |-> databases,
                                         stores |-> stores],
                                     !.successCalls = IF requests[t.request].onsuccess THEN 1 ELSE 0]]
        /\ UNCHANGED <<txs, thrown>>

\* a callback that writes to every store object of the store's name
FireStoreRequestByName(t) ==
    LET store == stores[t.store]
        data == CASE t.kind = "put" -> MapSet(store.data, KeyOf(t.value, store.keyPath), t.value)
                  [] t.kind = "delete" -> MapDelete(store.data, t.key)
                  [] OTHER -> store.data
        result == CASE t.kind = "get" -> MapGet(store.data, t.key)
                    [] t.kind = "getAll" -> [array |-> MapValues(store.data)]
                    [] OTHER -> requests[t.request].result
    IN  /\ stores' = [s \in 1..Len(stores) |->
                        IF stores[s].name = store.name
                        THEN [stores[s] EXCEPT !.data = data] ELSE stores[s]]
        /\ requests' = [requests EXCEPT ![t.request] =
                           [@ EXCEPT !.result = result,
                                     !.settled = TRUE,
                                     !.changed = (data # store.data),
                                     !.successCalls = IF requests[t.request].onsuccess THEN 1 ELSE 0]]
        /\ UNCHANGED <<databases, handles, txs, thrown>>

\* a callback that does not invoke the success handler
FireStoreRequestSilent(t) ==
    LET store == stores[t.store]
        data == CASE t.kind = "put" -> MapSet(store.data, KeyOf(t.value, store.keyPath), t.value)
                  [] t.kind = "delete" -> MapDelete(store.data, t.key)
                  [] OTHER -> store.data
        result == CASE t.kind = "get" -> MapGet(store.data, t.key)
                    [] t.kind = "getAll" -> [array |-> MapValues(store.data)]
                    [] OTHER -> requests[t.request].result
    IN  /\ stores' = [stores EXCEPT ![t.store].data = data]
        /\ requests' = [requests EXCEPT ![t.request] =
                           [@ EXCEPT !.result = result,
                                     !.settled = TRUE,
                                     !.changed = (data # store.data),
                                     !.successCalls = 0]]
        /\ UNCHANGED <<databases, handles, txs, thrown>>

\* the callback of get, put, delete or getAll (lines 57-60, 65-68, 73-76, 81-84)
FireStoreRequest(t) ==
    LET store == stores[t.store]
        data == CASE t.kind = "put" -> MapSet(store.data, KeyOf(t.value, store.keyPath), t.value)
                  [] t.kind = "delete" -> MapDelete(store.data, t.key)
                  [] OTHER -> store.data
        result == CASE t.kind = "get" -> MapGet(store.data, t.key)
                    [] t.kind = "getAll" -> [array |-> MapValues(store.data)]
                    [] OTHER -> requests[t.request].result
    IN  /\ stores' = [stores EXCEPT ![t.store].data = data]
        /\ requests' = [requests EXCEPT ![t.request] =
                           [@ EXCEPT !.result = result,
                                     !.settled = TRUE,
                                     !.changed = (data # store.data),
                                     !.successCalls = IF requests[t.request].onsuccess THEN 1 ELSE 0]]
        /\ UNCHANGED <<databases, handles, txs, thrown>>

\* an event loop that runs the newest timer first
DbFireNewest ==
    /\ timers # <<>>
    /\ IF timers[Len(timers)].kind = "open"
       THEN FireOpen(timers[Len(timers)])
       ELSE FireStoreRequest(timers[Len(timers)])
    /\ timers' = SubSeq(timers, 1, Len(timers) - 1)
    /\ UNCHANGED runnerVars

\* the event loop runs the oldest timer
DbFire ==
    /\ timers # <<>>
    /\ IF Head(timers).kind = "open"
       THEN FireOpen(Head(timers))
       ELSE FireStoreRequest(Head(timers))
    /\ timers' = Tail(timers)
    /\ UNCHANGED runnerVars

\* createObjectStore(name, {keyPath: "id"}) on a connection (lines 33-46);
\* the mock allows it at any time
DbCreateObjectStore ==
    /\ Calls < MaxCalls
    /\ \E h \in 1..Len(handles), name \in StoreNames :
          LET made == CreateIn(databases, stores, handles[h].db, name, FALSE)
          IN  /\ Variety + Odd(name # "s1") <= MaxVariety
              /\ databases' = made.dbs
              /\ stores' = made.sts
    /\ UNCHANGED <<timers, requests, handles, txs, thrown>>
    /\ UNCHANGED runnerVars

\* transaction(storeNames, mode) (lines 47-91): both arguments are ignored
DbTransaction ==
    /\ Calls < MaxCalls
    /\ \E h \in 1..Len(handles), mode \in Modes :
          /\ Variety + Odd(mode # "readwrite") <= MaxVariety
          /\ txs' = Append(txs, [handle |-> h, mode |-> mode,
                                 odd |-> Odd(mode # "readwrite"),
                                 afterClose |-> handles[h].closeCalled])
    /\ UNCHANGED <<databases, stores, timers, requests, handles, thrown>>
    /\ UNCHANGED runnerVars

\* the store object transaction tx finds under name (line 50), 0 for none
StoreOf(tx, name) ==
    LET db == databases[handles[txs[tx].handle].db]
    IN  IF name \in DOMAIN db.objectStores THEN db.objectStores[name] ELSE 0

\* objectStore(name) when the database has no such store (lines 51-53)
DbStoreNotFound ==
    /\ Calls < MaxCalls
    /\ \E tx \in 1..Len(txs), name \in StoreNames :
          /\ StoreOf(tx, name) = 0
          /\ Variety + Odd(name # "s1") <= MaxVariety
          /\ thrown' = Append(thrown, [tx |-> tx, message |-> "Store not found",
                                       name |-> name, odd |-> Odd(name # "s1")])
    /\ UNCHANGED <<databases, stores, timers, requests, handles, txs>>
    /\ UNCHANGED runnerVars

\* a request made without checking that the store exists
ScheduleUnchecked(kind, tx, name, key, value, onsuccess) ==
    /\ Calls < MaxCalls
    /\ Variety + OddRequest(name, key, onsuccess) <= MaxVariety
    /\ requests' = Append(requests,
                      NewRequest(kind, tx, StoreOf(tx, name), key, value, onsuccess,
                                 OddRequest(name, key, onsuccess)))
    /\ timers' = Append(timers,
                    [kind |-> kind, request |-> Len(requests) + 1,
                     store |-> StoreOf(tx, name), key |-> key, value |-> value])
    /\ UNCHANGED <<databases, stores, handles, txs, thrown>>
    /\ UNCHANGED runnerVars

\* objectStore(name).<kind>(...): the request is returned and its callback
\* scheduled; the callback holds the store object found now
Schedule(kind, tx, name, key, value, onsuccess) ==
    /\ Calls < MaxCalls
    /\ StoreOf(tx, name) # 0
    /\ Variety + OddRequest(name, key, onsuccess) <= MaxVariety
    /\ requests' = Append(requests,
                      NewRequest(kind, tx, StoreOf(tx, name), key, value, onsuccess,
                                 OddRequest(name, key, onsuccess)))
    /\ timers' = Append(timers,
                    [kind |-> kind, request |-> Len(requests) + 1,
                     store |-> StoreOf(tx, name), key |-> key, value |-> value])
    /\ UNCHANGED <<databases, stores, handles, txs, thrown>>
    /\ UNCHANGED runnerVars

\* objectStore(name).get(key) (lines 55-62)
DbGet ==
    \E tx \in 1..Len(txs), name \in StoreNames, key \in Keys, onsuccess \in BOOLEAN :
       Schedule("get", tx, name, key, Undefined, onsuccess)

\* objectStore(name).put(value) (lines 63-70)
DbPut ==
    \E tx \in 1..Len(txs), name \in StoreNames, value \in Values, onsuccess \in BOOLEAN :
       Schedule("put", tx, name, value.id, value, onsuccess)

\* objectStore(name).delete(key) (lines 71-78)
DbDelete ==
    \E tx \in 1..Len(txs), name \in StoreNames, key \in Keys, onsuccess \in BOOLEAN :
       Schedule("delete", tx, name, key, Undefined, onsuccess)

\* objectStore(name).getAll() (lines 79-86)
DbGetAll ==
    \E tx \in 1..Len(txs), name \in StoreNames, onsuccess \in BOOLEAN :
       Schedule("getAll", tx, name, NoKey, Undefined, onsuccess)

\* close() (lines 92-94): the body is empty; that it was called is history
DbClose ==
    /\ \E h \in 1..Len(handles) :
          /\ Calls < MaxCalls
          /\ ~handles[h].closeCalled
          /\ handles' = [handles EXCEPT ![h].closeCalled = TRUE]
    /\ UNCHANGED <<databases, stores, timers, requests, txs, thrown>>
    /\ UNCHANGED runnerVars

DbNext ==
    \/ DbOpen \/ DbFire \/ DbCreateObjectStore \/ DbTransaction
    \/ DbStoreNotFound
    \/ DbGet \/ DbPut \/ DbDelete \/ DbGetAll
    \/ DbClose

\* the mock with no benchmark running
DbInit ==
    /\ numChats = 0
    /\ messagesPerChat = 0
    /\ RunnerFresh
    /\ DbFresh

DbSpec == DbInit /\ [][DbNext]_vars

\* the event loop runs every callback whose timer has expired
DbFairSpec == DbSpec /\ WF_vars(DbFire)

(***************************************************************************)
(* Properties of the runner.                                               *)
(***************************************************************************)
WayIndex(name) == CHOOSE i \in 1..Len(Ways) : Ways[i] = name

\* the (operation, chatId, messageId) triples issued in phase p on variant w
Signature(p, w) ==
    LET es == SelectSeq(issued, LAMBDA e : e.phase = p /\ e.way = w)
    IN  [i \in 1..Len(es) |-> <<es[i].op, es[i].chat, es[i].msg>>]

IsPrefix(s, t) == Len(s) <= Len(t) /\ \A i \in 1..Len(s) : s[i] = t[i]

BenchmarkPhases == {"add", "read", "edit", "delete", "concurrentReads"}

\* C1: the phases start in the order initialize, add, read, edit, delete,
\* concurrent-read, stats, report, cleanup; a phase starts only when no store
\* operation issued before is still pending, never a phase that came before,
\* and, in a run that has not failed, always the one that comes next.
C1_PhasesInOrder ==
    /\ phase = "initialize"
    /\ [][phase' # phase =>
            /\ pending' = {}
            /\ PhaseIndex(phase') > PhaseIndex(phase)
            /\ caught' = NoError => PhaseIndex(phase') = PhaseIndex(phase) + 1]_vars

C1_Witness ==
    /\ phase = "done"
    /\ caught = NoError
    /\ numChats >= 1
    /\ messagesPerChat >= 1

\* C2: in every benchmark phase the variants are processed in the order
\* way1, way2, way3: the operations are issued phase by phase and, within a
\* phase, variant by variant (the issue log is sorted by phase, then by
\* variant), nothing is issued on a later variant while an operation of the
\* phase is pending, and every variant is issued the same sequence of
\* (operation, chatId, messageId): a later variant's sequence is at any time
\* a prefix of the sequence of the variant before it, and the three are
\* equal once the phase is over.
C2_VariantsInOrder ==
    /\ \A i \in 1..(Len(issued) - 1) :
          \/ PhaseIndex(issued[i].phase) < PhaseIndex(issued[i + 1].phase)
          \/ /\ issued[i].phase = issued[i + 1].phase
             /\ WayIndex(issued[i].way) <= WayIndex(issued[i + 1].way)
    /\ \A q \in pending : \A i \in 1..Len(issued) :
          issued[i].phase = q.op.phase
             => WayIndex(issued[i].way) <= WayIndex(q.op.way)
    /\ \A p \in BenchmarkPhases : \A w \in 2..Len(Ways) :
          /\ IsPrefix(Signature(p, Ways[w]), Signature(p, Ways[w - 1]))
          /\ PhaseIndex(phase) > PhaseIndex(p)
                => Signature(p, Ways[w]) = Signature(p, Ways[w - 1])

C2_Witness ==
    /\ phase = "stats"
    /\ numChats >= 2
    /\ messagesPerChat >= 2
    /\ Len(Signature("delete", "way3")) >= 4

\* the number of concurrent reads issued on variant w
ReadsIssued(w) == Len(Signature("concurrentReads", w))

\* C3: in the concurrent-read phase no read of a variant settles before all
\* ConcurrentUsers reads of that variant have been issued, and a variant has
\* its concurrentReads statistics only when all its reads have been issued
\* and none of them is still pending, whatever order they settle in.
C3_FireAndGather ==
    /\ (phase = "concurrentReads" /\ (completed # <<>> \/ pc = "gather"))
          => ReadsIssued(Ways[way]) = ConcurrentUsers
    /\ \A w \in 1..Len(Ways) :
          "concurrentReads" \in DOMAIN results[Ways[w]]
             => /\ ReadsIssued(Ways[w]) = ConcurrentUsers
                /\ \A q \in pending :
                      q.op.phase = "concurrentReads" => q.op.way # Ways[w]

C3_Witness ==
    /\ "concurrentReads" \in DOMAIN results["way1"]
    /\ phase = "concurrentReads"
    /\ Len(completed) = 1
    /\ completed[1].k = 2

\* the position in completion order of the k-th read issued on the current variant
CompletionIndex(k) ==
    (CHOOSE i \in 1..Len(completed) : completed[i].k = k)

\* C4 as stated: when the reads of a variant have all settled, the k-th
\* recorded duration is the duration of the k-th read issued.
C4_IssueOrder ==
    (phase = "concurrentReads" /\ pc = "gather" /\ pending = {})
       => \A k \in 1..Len(durations) :
             durations[k] = completed[CompletionIndex(k)].result.duration

\* the reads that settled with success, in completion order
SucceededInCompletionOrder == SelectSeq(completed, LAMBDA c : c.result.success)

\* C4 as amended: the recorded durations follow completion order: the k-th
\* recorded duration is the duration of the k-th read that settled with
\* success, so the durations recorded are those of the successful reads
\* whatever order the reads complete in.
C4_CompletionOrder ==
    phase = "concurrentReads"
       => /\ Len(durations) = Len(SucceededInCompletionOrder)
          /\ \A k \in 1..Len(durations) :
                durations[k] = SucceededInCompletionOrder[k].result.duration

C4_Witness ==
    /\ phase = "concurrentReads"
    /\ pending = {}
    /\ Len(completed) >= 2
    /\ completed[1].k > completed[2].k
    /\ completed[1].result.success
    /\ completed[2].result.success
    /\ completed[1].result.duration # completed[2].result.duration
    /\ durations = <<completed[1].result.duration, completed[2].result.duration>>

\* the operation issued by the step, when the step issues one
JustIssued == issued'[Len(issued')]

\* a step in which an operation returns success = false
FailureStep ==
    (failures' > failures) =>
       /\ durations' = durations
       /\ caught' = NoError
       /\ phase' = phase
       /\ way' = way
       /\ pc = "await" => (idx' = idx + 1 /\ pc' = "call")

\* a step that issues an awaited operation issues one never issued before
NoRetryStep ==
    (Len(issued') > Len(issued) /\ JustIssued.phase # "concurrentReads")
       => \A i \in 1..Len(issued) : issued[i] # JustIssued

\* the runner never waits on nothing, and a run in which an operation failed
\* does not get to cleanup without having printed the report
FailedRunReports ==
    /\ pc = "await" => Cardinality(pending) = 1
    /\ (failures > 0 /\ phase \in {"cleanup", "done"})
          => (report # NoReport /\ caught = NoError)

\* C5: when an operation returns success = false its duration is not added
\* to the durations, the run neither fails nor leaves the phase or the
\* variant, and an awaited operation is followed by the next one of the
\* sequence; no awaited operation is ever issued a second time; the runner
\* never waits on nothing; and a run in which an operation failed does not
\* get to cleanup without having printed the report.
C5_FailureIsSkipped ==
    []FailedRunReports /\ [][FailureStep /\ NoRetryStep]_vars

C5_Witness ==
    /\ failures > 0
    /\ report # NoReport
    /\ \E w \in 1..Len(Ways) :
          /\ "addMessage" \in DOMAIN results[Ways[w]]
          /\ results[Ways[w]]["addMessage"].count < numChats * messagesPerChat

OperationSet == {Operations[i] : i \in 1..Len(Operations)}

\* C6: every statistics bundle has count equal to the number of calls that
\* returned success, total equal to the sum of their durations, and average
\* equal to total/count.
C6_StatsAgree ==
    \A w \in 1..Len(Ways) : \A op \in OperationSet \cap DOMAIN results[Ways[w]] :
       LET b == results[Ways[w]][op] IN
       /\ b.count = tally[Ways[w]][op].count
       /\ b.total = tally[Ways[w]][op].total
       /\ NumEq(b.average, Div(b.total, b.count))

\* the variants that have a bundle for op
WaysWith(op) == {Ways[w] : w \in {v \in 1..Len(Ways) : op \in DOMAIN results[Ways[v]]}}

\* C7: the report ranks, for each operation, the variants that have a result
\* for it, each once, in non-decreasing order of average, and the overall
\* winner's sum of averages is at most that of every variant.
C7_ReportRanks ==
    report # NoReport =>
       /\ \A i \in 1..Len(Operations) :
             LET r == report.rankings[i] IN
             /\ {r[n].way : n \in 1..Len(r)} = WaysWith(Operations[i])
             /\ Len(r) = Cardinality(WaysWith(Operations[i]))
             /\ \A n \in 1..(Len(r) - 1) : Le(r[n].avg, r[n + 1].avg)
       /\ \A w \in 1..Len(Ways) :
             Le(OverallScore(results, report.overallWinner),
                OverallScore(results, Ways[w]))

\* the variants initialize() was issued on, in order
InitializedWays ==
    LET es == SelectSeq(issued, LAMBDA e : e.op = "initialize")
    IN  [i \in 1..Len(es) |-> es[i].way]

LastMessages(M) == [j \in 1..(IF M < 5 THEN M ELSE 5) |-> M - j + 1]

RECURSIVE ExpectedDeletes(_)
\* the deleteMessage calls for chats c..numChats, chat by chat
ExpectedDeletes(c) ==
    IF c > numChats THEN <<>>
    ELSE [j \in 1..Len(LastMessages(messagesPerChat)) |->
             <<"deleteMessage", c, LastMessages(messagesPerChat)[j]>>]
         \o ExpectedDeletes(c + 1)

\* the variants whose delete loops are over
DeletedWays ==
    {Ways[w] : w \in {v \in 1..Len(Ways) :
                        \/ phase = "delete" /\ v < way
                        \/ PhaseIndex(phase) > PhaseIndex("delete") /\ rejected = NoError}}

\* C15: on every variant the delete phase issues deleteMessage exactly once
\* for each of the last min(5, M) messages of every chat, chat by chat and
\* in descending index order, and for no other message; with M <= 5 these
\* are all the messages of every chat.
C15_DeletesLastFive ==
    \A w \in 1..Len(Ways) :
       /\ IsPrefix(Signature("delete", Ways[w]), ExpectedDeletes(1))
       /\ Ways[w] \in DeletedWays =>
             /\ Signature("delete", Ways[w]) = ExpectedDeletes(1)
             /\ messagesPerChat <= 5 =>
                   {<<e[2], e[3]>> : e \in {ExpectedDeletes(1)[i] : i \in 1..Len(ExpectedDeletes(1))}}
                      = (1..numChats) \X (1..messagesPerChat)

\* the delete phase is over on a dataset of two chats with more than five
\* messages each
C15_Witness ==
    /\ phase # "delete"
    /\ numChats = 2
    /\ messagesPerChat > 5
    /\ Len(Signature("delete", Ways[Len(Ways)])) = 2 * 5

\* the variants close() was issued on, in order
ClosedWays ==
    LET es == SelectSeq(issued, LAMBDA e : e.op = "close")
    IN  [i \in 1..Len(es) |-> es[i].way]

\* close() is issued, and returns, variant by variant in the order of Ways,
\* once each; nothing but close() is issued after the first close(); the
\* run is over only when all three have returned
CleanupInOrder ==
    /\ IsPrefix(ClosedWays, Ways)
    /\ IsPrefix(closeLog, Ways)
    /\ IsPrefix(closeLog, ClosedWays)
    /\ \A i \in 1..(Len(issued) - 1) :
          issued[i].op = "close" => issued[i + 1].op = "close"
    /\ ClosedWays # <<>> => phase \in {"cleanup", "done"}
    /\ phase = "cleanup" =>
          \/ pc = "call" /\ pending = {}
          \/ pc = "await" /\ \E q \in pending : q.op.op = "close"
    /\ phase = "done" => (ClosedWays = Ways /\ closeLog = Ways /\ pending = {})

\* the try block is left, by an exception or by the return of
\* runFullBenchmark, into cleanup only, and the run ends from cleanup only
CleanupFollows ==
    /\ caught' # caught => phase' = "cleanup"
    /\ (phase = "report" /\ phase' # phase) => phase' = "cleanup"
    /\ (phase' = "done" /\ phase # "done") => phase = "cleanup"

\* C19: cleanup is executed after every run outcome (success, initialize
\* failure, failure in a benchmark phase): close() is called exactly once
\* on each adapter, in the order way1, way2, way3, and no store operation
\* is issued after cleanup has started.
C19_CleanupAlways ==
    /\ []CleanupInOrder
    /\ [][CleanupFollows]_vars

\* a run that failed in a benchmark phase is over, all three adapters closed
C19_Witness ==
    /\ caught = TypeError
    /\ phase = "done"
    /\ closeLog = Ways
    /\ ClosedWays = Ways

\* every variant has a statistics bundle for each of the five operations
AllBundles ==
    \A w \in 1..Len(Ways) : OperationSet \subseteq DOMAIN results[Ways[w]]

\* C20: whenever the report phase is reached, every variant has a
\* statistics bundle for each of the five operations, so every
\* per-operation ranking has one entry per variant and the winner selection
\* does not read the first element of an empty ranking.
C20_ReportHasAllBundles ==
    /\ phase = "report" =>
          /\ AllBundles
          /\ ~AnalyzeThrows(results)
          /\ \A i \in 1..Len(Operations) :
                Len(Ranking(results, Operations[i])) = Len(Ways)
    /\ report # NoReport =>
          /\ Len(report.rankings) = Len(Operations)
          /\ \A i \in 1..Len(Operations) : Len(report.rankings[i]) = Len(Ways)

\* the report was made in a run with no message, whose add, edit and delete
\* bundles have no duration
C20_Witness ==
    /\ report # NoReport
    /\ messagesPerChat = 0
    /\ \A w \in 1..Len(Ways) : results[Ways[w]]["addMessage"].count = 0

\* C21: every statistics bundle produced by a phase has a finite min,
\* average and max with min <= average <= max, for every dataset and every
\* pattern of operation failures.
C21_BundlesFinite ==
    \A w \in 1..Len(Ways) : \A op \in OperationSet \cap DOMAIN results[Ways[w]] :
       LET b == results[Ways[w]][op] IN
       /\ IsFinite(b.min) /\ IsFinite(b.average) /\ IsFinite(b.max)
       /\ Le(b.min, b.average)
       /\ Le(b.average, b.max)

(***************************************************************************)
(* Properties of the mock store, under DbSpec.  Timers fire in the order   *)
(* they were set, so requests settle in the order of their indices.        *)
(***************************************************************************)
SettledRequests == {r \in 1..Len(requests) : requests[r].settled}

Writes == {r \in SettledRequests : requests[r].kind \in {"put", "delete"}}

\* C9: after close() has been called on a handle, every request issued
\* through that handle (through a transaction obtained before or after the
\* close) fails with Closed: once its callback has run its error is Closed,
\* its success handler was not invoked and the store's data is as before.
C9_ClosedHandleFails ==
    \A r \in SettledRequests :
       requests[r].afterClose =>
          /\ requests[r].error = "Closed"
          /\ requests[r].successCalls = 0
          /\ ~requests[r].changed

\* two gets of one key in one read-only transaction, with every write to
\* that key that settles between them issued through another transaction
SnapshotPair(r1, r2) ==
    /\ r1 < r2
    /\ requests[r1].kind = "get" /\ requests[r2].kind = "get"
    /\ requests[r1].tx = requests[r2].tx
    /\ txs[requests[r1].tx].mode = "readonly"
    /\ requests[r1].store = requests[r2].store
    /\ requests[r1].key = requests[r2].key
    /\ \A w \in Writes :
          (r1 < w /\ w < r2 /\ requests[w].store = requests[r1].store
             /\ requests[w].key = requests[r1].key)
          => requests[w].tx # requests[r1].tx

\* requests a and c of one write transaction with request b of another write
\* transaction on the same store settled between them
Interleaved(a, b, c) ==
    /\ a < b /\ b < c
    /\ requests[a].tx = requests[c].tx
    /\ requests[b].tx # requests[a].tx
    /\ requests[a].store = requests[b].store
    /\ requests[c].store = requests[b].store
    /\ txs[requests[a].tx].mode = "readwrite"
    /\ txs[requests[b].tx].mode = "readwrite"

\* C10: snapshot isolation with a single writer: the two gets of a snapshot
\* pair return the same value, and the requests of two write transactions
\* on one store are never interleaved.
C10_SnapshotIsolation ==
    /\ \A r1, r2 \in SettledRequests :
          SnapshotPair(r1, r2) => requests[r1].result = requests[r2].result
    /\ \A a, b, c \in Writes : ~Interleaved(a, b, c)

\* the open requests whose callback has run
Opened == {r \in SettledRequests : requests[r].kind = "open"}

\* an open that finds no database of that name, or a stored version below
\* the requested one
NeedsUpgrade(o) == o.wasNew \/ o.version > o.versionBefore

\* the upgrade callback of every open ran exactly when one was attached and
\* the open needed an upgrade
UpgradeExactlyWhenNeeded ==
    \A r \in Opened :
       LET o == requests[r].opened IN
       (o.upgradeCalls > 0) <=> (o.onupgradeneeded # "none" /\ NeedsUpgrade(o))

\* after every open the stored version was the requested one
VersionStored ==
    \A r \in Opened : requests[r].opened.versionAfter = requests[r].opened.version

\* every object store was created by an upgrade callback
StoresOnlyInUpgrade == \A s \in 1..Len(stores) : stores[s].inUpgrade

\* C11: schema migration is tied to a version bump: the upgrade callback of
\* an open runs exactly when the database is new or the requested version is
\* greater than the stored one, the stored version after the open is the
\* requested version, and every object store was created during an upgrade.
C11_UpgradeOnVersionBump ==
    /\ UpgradeExactlyWhenNeeded
    /\ VersionStored
    /\ StoresOnlyInUpgrade

\* the step is the callback of an open of a database that exists, at the
\* version stored for it
ReopenStep ==
    /\ timers # <<>>
    /\ timers' = Tail(timers)
    /\ Head(timers).kind = "open"
    /\ Head(timers).dbName \in DOMAIN databases
    /\ Head(timers).version = databases[Head(timers).dbName].version

\* every database keeps its object stores, and every store object its values
SchemaAndDataKept ==
    /\ \A d \in DOMAIN databases :
          /\ d \in DOMAIN databases'
          /\ \A n \in DOMAIN databases[d].objectStores :
                /\ n \in DOMAIN databases'[d].objectStores
                /\ databases'[d].objectStores[n] = databases[d].objectStores[n]
    /\ \A s \in 1..Len(stores) : stores'[s] = stores[s]

\* the request's result is a new handle on the database named in the open
HandleOnSameData ==
    /\ Len(handles') = Len(handles) + 1
    /\ handles'[Len(handles')].db = Head(timers).dbName
    /\ requests'[Head(timers).request].result = [handle |-> Len(handles')]

FireStep(kind) ==
    /\ timers # <<>>
    /\ timers' = Tail(timers)
    /\ Head(timers).kind = kind

\* the request of the callback being run completes with success: its error
\* stays null, its error handler is not invoked and its success handler, if
\* attached, is invoked once
CompletesWithSuccess ==
    LET r == Head(timers).request IN
    /\ requests'[r].settled
    /\ requests'[r].error = "null"
    /\ requests'[r].errorCalls = 0
    /\ requests'[r].successCalls = IF requests[r].onsuccess THEN 1 ELSE 0

\* a delete completes with success, leaves every store as it was when the
\* key is absent, and leaves a store that a second delete would not change
DeleteStep ==
    LET t == Head(timers) IN
    /\ CompletesWithSuccess
    /\ ~MapHas(stores[t.store].data, t.key) => stores' = stores
    /\ ~MapHas(stores'[t.store].data, t.key)
    /\ MapDelete(stores'[t.store].data, t.key) = stores'[t.store].data

\* C13: deletion is idempotent: a delete of an absent id completes with
\* success and leaves the store's contents unchanged, and two deletes of the
\* same id leave the same state as one delete.
C13_DeleteIsIdempotent == [][FireStep("delete") => DeleteStep]_vars

\* a key was deleted twice from one store: the first delete removed it, the
\* second found it absent
C13_Witness ==
    \E r1, r2 \in SettledRequests :
       /\ r1 < r2
       /\ requests[r1].kind = "delete" /\ requests[r2].kind = "delete"
       /\ requests[r1].store = requests[r2].store
       /\ requests[r1].key = requests[r2].key
       /\ requests[r1].changed /\ ~requests[r2].changed

\* a put stores its value under the value's key, keeps the number of entries
\* when the key was present, and keeps what every other key holds
PutStep ==
    LET t == Head(timers)
        before == stores[t.store].data
        after == stores'[t.store].data
    IN  /\ MapGet(after, t.value.id) = t.value
        /\ Len(after) = IF MapHas(before, t.value.id) THEN Len(before) ELSE Len(before) + 1
        /\ \A k \in Keys \ {t.value.id} : MapGet(after, k) = MapGet(before, k)

\* a get returns what the store holds under the key
GetStep ==
    LET t == Head(timers) IN
    requests'[t.request].result = MapGet(stores[t.store].data, t.key)

\* what a store object holds under a key changes only in the callback of a
\* put or a delete of that key on that store
ChangedOnlyByWrites ==
    \A s \in 1..Len(stores) : \A k \in Keys :
       MapGet(stores'[s].data, k) # MapGet(stores[s].data, k) =>
          /\ FireStep("put") \/ FireStep("delete")
          /\ Head(timers).store = s
          /\ Head(timers).key = k

\* C14: put is an upsert keyed by the value's keyPath field: after put(v),
\* get(v[keyPath]) returns v until a later put or delete of that key
\* completes; a put on an existing key keeps the number of entries; a put
\* changes the value under no other key.
C14_PutIsUpsert ==
    [][/\ FireStep("put") => PutStep
       /\ FireStep("get") => GetStep
       /\ ChangedOnlyByWrites]_vars

\* a key was put twice and then read: the get returned the second value
C14_Witness ==
    \E p1, p2, g \in SettledRequests :
       /\ p1 < p2 /\ p2 < g
       /\ requests[p1].kind = "put" /\ requests[p2].kind = "put"
       /\ requests[g].kind = "get"
       /\ requests[p1].store = requests[g].store
       /\ requests[p2].store = requests[g].store
       /\ requests[p1].key = requests[g].key
       /\ requests[p2].key = requests[g].key
       /\ requests[g].result = requests[p2].value

\* the (database, store name) pairs that exist
StorePlaces ==
    {p \in (DOMAIN databases) \X StoreNames : p[2] \in DOMAIN databases[p[1]].objectStores}

\* the store object at a place
StoreAt(p) == databases[p[1]].objectStores[p[2]]

\* two places never share a store object
NoSharedStore ==
    \A p, q \in StorePlaces : p # q => StoreAt(p) # StoreAt(q)

\* the step is the callback of a get, put, delete or getAll
StoreRequestStep ==
    FireStep("get") \/ FireStep("put") \/ FireStep("delete") \/ FireStep("getAll")

\* every store object but the request's own, and the stores of every
\* database, are as before
OthersUntouched ==
    /\ databases' = databases
    /\ Len(stores') = Len(stores)
    /\ \A s \in 1..Len(stores) : s # Head(timers).store => stores'[s] = stores[s]

ThrowStep == thrown' # thrown

\* the throw is a 'Store not found' error for a store the transaction's
\* database does not have, and the step creates no request, schedules no
\* callback and changes no database and no store
ThrowsOnly ==
    LET e == thrown'[Len(thrown')] IN
    /\ thrown' = Append(thrown, e)
    /\ e.message = "Store not found"
    /\ e.name \notin DOMAIN databases[handles[txs[e.tx].handle].db].objectStores
    /\ requests' = requests
    /\ timers' = timers
    /\ stores' = stores
    /\ databases' = databases

\* the step creates a store request
RequestStep ==
    /\ Len(requests') = Len(requests) + 1
    /\ requests'[Len(requests')].kind # "open"

\* the new request is on the store object its transaction's database has
\* under that store's name
RequestOnExistingStore ==
    LET q == requests'[Len(requests')]
        db == databases[handles[txs[q.tx].handle].db]
    IN  /\ q.store \in 1..Len(stores)
        /\ stores[q.store].name \in DOMAIN db.objectStores
        /\ db.objectStores[stores[q.store].name] = q.store

\* C17: accessing an object store that has not been created fails at once
\* with a 'Store not found' error: no request is created and no callback
\* scheduled for it, and no stored data changes; every request that is
\* created is on a store its database has.
C17_StoreNotFound ==
    [][/\ ThrowStep => ThrowsOnly
       /\ RequestStep => RequestOnExistingStore]_vars

\* an objectStore(name) has thrown, and a store of the mock holds a value
C17_Witness ==
    /\ thrown # <<>>
    /\ \E s \in 1..Len(stores) : stores[s].data # <<>>

\* no handler was invoked more often than it should: the error handler
\* never, the success handler not before the callback has run and then once
\* if it was attached
HandlersInvokedRight ==
    \A r \in 1..Len(requests) :
       /\ requests[r].errorCalls = 0
       /\ requests[r].error = "null"
       /\ requests[r].successCalls =
             IF requests[r].settled /\ requests[r].onsuccess THEN 1 ELSE 0

\* the r-th request has been made
Made(r) == Len(requests) >= r

\* the callback of the r-th request has run
Done(r) == Len(requests) >= r /\ requests[r].settled

Unsettled == {r \in 1..Len(requests) : ~requests[r].settled}

\* the puts and deletes made before request g on g's store object and key
EarlierWrites(g) ==
    {w \in 1..(g - 1) :
        /\ requests[w].kind \in {"put", "delete"}
        /\ requests[w].store = requests[g].store
        /\ requests[w].key = requests[g].key}

\* what the last write made before g left under g's key
LastWritten(g) ==
    IF EarlierWrites(g) = {} THEN Undefined
    ELSE LET w == CHOOSE x \in EarlierWrites(g) : \A y \in EarlierWrites(g) : y <= x
         IN  IF requests[w].kind = "put" THEN requests[w].value ELSE Undefined

\* callbacks run in the order the requests were made: the requests whose
\* callback has run are the first ones made, and the scheduled callbacks are
\* those of the others, oldest first
CompleteInOrder ==
    /\ \A r \in SettledRequests : \A q \in 1..(r - 1) : q \in SettledRequests
    /\ Len(timers) = Cardinality(Unsettled)
    /\ \A i \in 1..Len(timers) : timers[i].request = Len(requests) - Len(timers) + i

\* a put or delete whose callback has not run has not touched the store
EffectAtCompletion ==
    \A w \in Unsettled :
       /\ requests[w].kind = "put" =>
             \A s \in 1..Len(stores) : \A k \in Keys :
                MapGet(stores[s].data, k) # requests[w].value
       /\ ~requests[w].changed

\* C22: requests to the in-memory store take effect and complete in the
\* order they were made, each when its callback runs and not when it is made:
\* a get returns what the last put or delete made before it on the same store
\* object and key left there, whether or not the caller waited for that write,
\* and never the value of a put made after it.
C22_IssueOrder ==
    /\ CompleteInOrder
    /\ EffectAtCompletion
    /\ \A g \in SettledRequests :
          requests[g].kind = "get" =>
             /\ requests[g].result = LastWritten(g)
             /\ \A p \in (g + 1)..Len(requests) :
                   requests[p].kind = "put" => requests[g].result # requests[p].value

\* a get made before a put returned undefined, a get made after it returned
\* the put's value, and a later put, whose callback has not run yet, has not
\* replaced that value
C22_Witness ==
    \E g0, p, g1 \in SettledRequests : \E p2 \in Unsettled :
       /\ g0 < p /\ p < g1 /\ g1 < p2
       /\ requests[g0].kind = "get" /\ requests[g1].kind = "get"
       /\ requests[p].kind = "put" /\ requests[p2].kind = "put"
       /\ \A r \in {p, g1, p2} :
             /\ requests[r].store = requests[g0].store
             /\ requests[r].key = requests[g0].key
       /\ requests[g0].result = Undefined
       /\ requests[g1].result = requests[p].value
       /\ MapGet(stores[requests[p2].store].data, requests[p2].key) = requests[p].value
====
